---------------------------- MODULE Spec2Model ----------------------------
(***************************************************************************)
(* A model of inject/injectors.py: the Injector (its scope stack, its      *)
(* scope table, its binding, factory and resolution operations), the       *)
(* class-level slot Injector.injector that holds the registered injector,  *)
(* and the module-level functions that forward to it.                      *)
(*                                                                         *)
(* Objects live on a heap.  A scope object is a number in ScopeIds, an     *)
(* injector object a number in InjIds; both are handed out in order of     *)
(* construction and never reused.  A value is a pair <<tag, n>>: identity  *)
(* of objects is equality of pairs.                                        *)
(***************************************************************************)
EXTENDS Integers, Sequences, FiniteSets, TLC

\* ------------------------------------------------------------------ bounds
MaxInjectors == 2     \* injector objects ever constructed
MaxScopes == 6        \* scope objects ever constructed
MaxInstances == 2     \* instances ever built by autobinding class A
MaxCalls == 2         \* factory invocations
MaxDirect == 1        \* operations made on a scope object directly
MaxScopeOps == 1      \* calls of bind_scope, unbind_scope and clear
MaxRescopes == 3      \* the same calls, where nothing else is called
MaxThreads == 3       \* threads that call get at the same time

\* -------------------------------------------------------------------- keys
ScopeTypes == {"ApplicationScope", "ThreadScope", "RequestScope"}
\* "A": a class with a zero-argument constructor; "B": a class whose
\* constructor raises; "K": a key that is not callable.
Keys == ScopeTypes \cup {"Injector", "A", "B", "K"}

\* The heap has room for the objects of one more operation than the bounds
\* admit (an Injector and its three scopes), so that every operation is
\* defined in every state; Fits rejects the steps that would use the room.
InjIds == 1..(MaxInjectors + 1)
ScopeIds == 1..(MaxScopes + 3)

\* ------------------------------------------------------------------ values
None == <<"None", 0>>
Unbound == <<"unbound", 0>>            \* the key is absent from a dict
Obj(n) == <<"obj", n>>                 \* an object made by the caller
ScopeRef(s) == <<"scope", s>>          \* a scope object
InjRef(i) == <<"injector", i>>         \* an injector object
Inst(n) == <<"A", n>>                  \* the n-th instance of class A
Made(n) == <<"made", n>>               \* the n-th object a factory returned
NoFactory == "nofactory"
UserObjs == {Obj(1), Obj(2)}
Factories == {"f"}

VARIABLES
    injector,        \* Injector.injector: 0 (None) or the registered injector
    ninjectors,      \* injector objects constructed so far
    nscopes,         \* scope objects constructed so far
    autobind,        \* autobind[i]: self.autobind
    scopes,          \* scopes[i][t]: self._scopes, 0 when t is not a key
    scopes_stack,    \* scopes_stack[i]: self._scopes_stack
    app_scope,       \* app_scope[i]: self._app_scope
    bindings,        \* bindings[s][k]: bindings of scope object s
    factories,       \* factories[s][k]: factories of scope object s
    ninstances,      \* times class A was constructed
    ncalls,          \* times a factory was invoked
    ndirect,         \* operations made on scope objects directly
    nscopeops,       \* calls of bind_scope, unbind_scope and clear
    owner,           \* owner[s]: the injector scope object s was made for
    class,           \* class[s]: the scope class scope object s is made of
    bound_to,        \* history: bound_to[i][k] is x after i.bind(k, to=x),
                     \* Unbound once k is unbound again in any way
    fired,           \* history: fired[s][k]: times scope object s invoked
                     \* the factory of k
    threads,         \* threads[t]: where thread t is in its call of get
    last             \* history: the last operation, its arguments and result

vars == <<injector, ninjectors, nscopes, autobind, scopes, scopes_stack,
          app_scope, bindings, factories, ninstances, ncalls, ndirect,
          nscopeops, owner, class, bound_to, fired, threads, last>>

\* The heap as one record, so that an operation that calls another is the
\* composition of two operators on it.
Heap ==
    [injector |-> injector, ninjectors |-> ninjectors, nscopes |-> nscopes,
     autobind |-> autobind, scopes |-> scopes, scopes_stack |-> scopes_stack,
     app_scope |-> app_scope, bindings |-> bindings, factories |-> factories,
     ninstances |-> ninstances, ncalls |-> ncalls, owner |-> owner,
     class |-> class, bound_to |-> bound_to, fired |-> fired]

Commit(W) ==
    /\ injector' = W.injector
    /\ ninjectors' = W.ninjectors
    /\ nscopes' = W.nscopes
    /\ autobind' = W.autobind
    /\ scopes' = W.scopes
    /\ scopes_stack' = W.scopes_stack
    /\ app_scope' = W.app_scope
    /\ bindings' = W.bindings
    /\ factories' = W.factories
    /\ ninstances' = W.ninstances
    /\ ncalls' = W.ncalls
    /\ owner' = W.owner
    /\ class' = W.class
    /\ bound_to' = W.bound_to
    /\ fired' = W.fired

\* --------------------------------------------------------- the Scope contract
\* inject/scopes.py: a scope stores bindings (key -> instance) and factories
\* (key -> zero-argument callable).
scope_is_bound(W, s, k) == W.bindings[s][k] # Unbound

scope_is_factory_bound(W, s, k) == W.factories[s][k] # NoFactory

scope_bind(W, s, k, v) == [W EXCEPT !.bindings[s][k] = v]

scope_unbind(W, s, k) == [W EXCEPT !.bindings[s][k] = Unbound]

scope_bind_factory(W, s, k, f) == [W EXCEPT !.factories[s][k] = f]

scope_unbind_factory(W, s, k) == [W EXCEPT !.factories[s][k] = NoFactory]

\* scope.get(key): the stored instance, else the factory's result, which is
\* stored as a binding.  Returns the new heap and the value.
scope_get(W, s, k) ==
    IF scope_is_bound(W, s, k)
    THEN [W |-> W, val |-> W.bindings[s][k]]
    ELSE [W |-> [W EXCEPT !.bindings[s][k] = Made(W.ncalls + 1),
                          !.ncalls = W.ncalls + 1,
                          !.fired[s][k] = W.fired[s][k] + 1],
          val |-> Made(W.ncalls + 1)]


\* ------------------------------------------------------------------ helpers
Min(S) == CHOOSE n \in S : \A m \in S : n <= m

\* list.remove(x): the list without the first occurrence of x.
Remove(seq, x) ==
    LET at == {n \in 1..Len(seq) : seq[n] = x}
    IN  IF at = {} THEN seq
        ELSE [n \in 1..(Len(seq) - 1) |->
                 IF n < Min(at) THEN seq[n] ELSE seq[n + 1]]

\* scope_type(): a new scope object, empty, made on behalf of injector i.
NewScope(W, i, scope_type) ==
    [W EXCEPT !.nscopes = W.nscopes + 1,
              !.owner[W.nscopes + 1] = i,
              !.class[W.nscopes + 1] = scope_type]

\* ---------------------------------------------------- Injector: bindings
\* The positions of the stack whose scope has a binding for type.
BoundAt(W, i, type) ==
    {n \in 1..Len(W.scopes_stack[i]) :
        scope_is_bound(W, W.scopes_stack[i][n], type)}

FactoryBoundAt(W, i, type) ==
    {n \in 1..Len(W.scopes_stack[i]) :
        scope_is_factory_bound(W, W.scopes_stack[i][n], type)}

is_bound(W, i, type) == BoundAt(W, i, type) # {}

is_factory_bound(W, i, type) == FactoryBoundAt(W, i, type) # {}

unbind_everywhere(W, i, type) ==
    [W EXCEPT !.bound_to[i][type] = Unbound,
              !.bindings = [s \in ScopeIds |->
                  IF \E n \in BoundAt(W, i, type) : W.scopes_stack[i][n] = s
                  THEN [W.bindings[s] EXCEPT ![type] = Unbound]
                  ELSE W.bindings[s]]]

unbind(W, i, type) ==
    LET W1 == [W EXCEPT !.bound_to[i][type] = Unbound]
    IN  IF BoundAt(W, i, type) = {} THEN W1
        ELSE scope_unbind(W1, W.scopes_stack[i][Min(BoundAt(W, i, type))], type)

bind_without_unbind(W, i, type, to) ==
    LET W2 == scope_bind(W, W.app_scope[i], type, to)
    IN  [W2 EXCEPT !.bound_to[i][type] = to]

bind(W, i, type, to) ==
    LET W1 == IF is_bound(W, i, type) THEN unbind(W, i, type) ELSE W
        W2 == scope_bind(W1, W1.app_scope[i], type, to)
    IN  [W2 EXCEPT !.bound_to[i][type] = to]

unbind_factory(W, i, type) ==
    IF FactoryBoundAt(W, i, type) = {} THEN W
    ELSE scope_unbind_factory(
             W, W.scopes_stack[i][Min(FactoryBoundAt(W, i, type))], type)

bind_factory_unbinds_binding(W, i, type, factory) ==
    LET W0 == unbind(W, i, type)
        W1 == IF is_factory_bound(W0, i, type)
              THEN unbind_factory(W0, i, type) ELSE W0
    IN  scope_bind_factory(W1, W1.app_scope[i], type, factory)

bind_factory(W, i, type, factory) ==
    LET W1 == IF is_factory_bound(W, i, type)
              THEN unbind_factory(W, i, type) ELSE W
    IN  scope_bind_factory(W1, W1.app_scope[i], type, factory)

\* ------------------------------------------------------ Injector: scopes
is_scope_bound(W, i, scope_type) == W.scopes[i][scope_type] # 0

unbind_scope_keeps_stack(W, i, scope_type) ==
    IF ~is_scope_bound(W, i, scope_type) THEN W
    ELSE LET W1 == unbind(W, i, scope_type)
         IN  [W1 EXCEPT !.scopes[i][scope_type] = 0]

unbind_scope(W, i, scope_type) ==
    IF ~is_scope_bound(W, i, scope_type) THEN W
    ELSE LET W1 == unbind(W, i, scope_type)
             scope == W1.scopes[i][scope_type]
         IN  [W1 EXCEPT !.scopes[i][scope_type] = 0,
                        !.scopes_stack[i] = Remove(W1.scopes_stack[i], scope)]

bind_scope_prepends(W, i, scope_type, scope) ==
    LET W1 == unbind_scope(W, i, scope_type)
        W2 == bind(W1, i, scope_type, ScopeRef(scope))
    IN  [W2 EXCEPT !.scopes[i][scope_type] = scope,
                   !.scopes_stack[i] = <<scope>> \o W2.scopes_stack[i]]

bind_scope(W, i, scope_type, scope) ==
    LET W1 == unbind_scope(W, i, scope_type)
        W2 == bind(W1, i, scope_type, ScopeRef(scope))
    IN  [W2 EXCEPT !.scopes[i][scope_type] = scope,
                   !.scopes_stack[i] = Append(W2.scopes_stack[i], scope)]

\* ------------------------------------------- Injector: construction, clear
default_config(W, i) ==
    LET W1 == bind(W, i, "Injector", InjRef(i))
        W2 == NewScope(W1, i, "ThreadScope")
        W3 == bind_scope(W2, i, "ThreadScope", W2.nscopes)
        W4 == NewScope(W3, i, "RequestScope")
    IN  bind_scope(W4, i, "RequestScope", W4.nscopes)

init(W, i) ==
    LET W1 == [W EXCEPT !.scopes[i] = [t \in ScopeTypes |-> 0],
                        !.scopes_stack[i] = << >>]
        W2 == NewScope(W1, i, "ApplicationScope")
        W3 == [W2 EXCEPT !.app_scope[i] = W2.nscopes]
        W4 == bind_scope(W3, i, "ApplicationScope", W3.app_scope[i])
    IN  default_config(W4, i)

\* Injector(autobind): the new injector is object W.ninjectors + 1.
new_injector(W, ab) ==
    LET i == W.ninjectors + 1
    IN  init([W EXCEPT !.ninjectors = i, !.autobind[i] = ab], i)

clear_keeps_app_scope(W, i) ==
    LET W1 == [W EXCEPT !.scopes[i] = [t \in ScopeTypes |-> 0],
                        !.scopes_stack[i] = << >>,
                        !.bound_to[i] = [k \in Keys |-> Unbound]]
        W2 == bind_scope(W1, i, "ApplicationScope", W1.app_scope[i])
    IN  default_config(W2, i)

clear_unregisters(W, i) ==
    init([W EXCEPT !.app_scope[i] = 0,
                   !.bound_to[i] = [k \in Keys |-> Unbound],
                   !.injector = 0], i)

clear(W, i) ==
    init([W EXCEPT !.app_scope[i] = 0,
                   !.bound_to[i] = [k \in Keys |-> Unbound]], i)


\* --------------------------------------------------- Injector: resolution
callable(type) == type # "K"

NoArgs == <<"", "", 0>>
\* What an operation hands back: the new heap, "ok" or the exception raised,
\* the value returned and the arguments the exception carries.
Return(W, val) == [W |-> W, st |-> "ok", ret |-> val, args |-> NoArgs]
Raise(W, exc, args) == [W |-> W, st |-> exc, ret |-> None, args |-> args]

\* type(): the heap after the constructor ran and the new instance, or the
\* error the constructor raised.
construct(W, i, type) ==
    IF type = "B" THEN [ok |-> FALSE, W |-> W, val |-> None]
    ELSE IF type = "A"
    THEN [ok |-> TRUE, W |-> [W EXCEPT !.ninstances = W.ninstances + 1],
          val |-> Inst(W.ninstances + 1)]
    ELSE IF type \in ScopeTypes
    THEN [ok |-> TRUE, W |-> NewScope(W, i, type),
          val |-> ScopeRef(W.nscopes + 1)]
    ELSE [ok |-> TRUE, W |-> new_injector(W, TRUE),
          val |-> InjRef(W.ninjectors + 1)]

\* The positions of the stack whose scope has a binding or a factory for
\* type.
Matches(W, i, type) == BoundAt(W, i, type) \cup FactoryBoundAt(W, i, type)

last_match(W, i, type) ==
    CHOOSE n \in Matches(W, i, type) : \A m \in Matches(W, i, type) : m <= n

\* for scope in self._scopes_stack: the first scope that has the type.
first_match(W, i, type) == Min(Matches(W, i, type))

autobinding_keeps_failure(W, i, type) ==
    LET c == construct(W, i, type)
    IN  IF ~c.ok
        THEN Raise(bind(W, i, type, None), "AutobindingFailed",
                   <<type, "CtorError", 0>>)
        ELSE Return(bind(c.W, i, type, c.val), c.val)

\* The autobinding branch of get.
autobinding(W, i, type) ==
    LET c == construct(W, i, type)
    IN  IF ~c.ok
        THEN Raise(W, "AutobindingFailed", <<type, "CtorError", 0>>)
        ELSE Return(bind(c.W, i, type, c.val), c.val)

not_bound_ignores_none(W, type, none) ==
    Raise(W, "NotBoundError", <<type, "", 0>>)

\* The end of get: nothing is bound and nothing was autobound.
not_bound(W, type, none) ==
    IF none THEN Return(W, None)
    ELSE Raise(W, "NotBoundError", <<type, "", 0>>)

get_invokes_factory_again(W, i, type, none) ==
    IF Matches(W, i, type) # {}
    THEN LET s == W.scopes_stack[i][first_match(W, i, type)]
             r == IF scope_is_factory_bound(W, s, type)
                  THEN scope_get(scope_unbind(W, s, type), s, type)
                  ELSE scope_get(W, s, type)
         IN  Return(r.W, r.val)
    ELSE IF W.autobind[i] /\ callable(type)
    THEN autobinding(W, i, type)
    ELSE not_bound(W, type, none)

get(W, i, type, none) ==
    IF Matches(W, i, type) # {}
    THEN LET r == scope_get(W, W.scopes_stack[i][first_match(W, i, type)],
                            type)
         IN  Return(r.W, r.val)
    ELSE IF W.autobind[i] /\ callable(type)
    THEN autobinding(W, i, type)
    ELSE not_bound(W, type, none)

\* ------------------------------------------------ registration (class level)
cls_get_injector(W) ==
    IF W.injector = 0 THEN Raise(W, "NoInjectorRegistered", NoArgs)
    ELSE Return(W, InjRef(W.injector))

cls_register_overwrites(W, i) == Return([W EXCEPT !.injector = i], None)

cls_register(W, i) ==
    IF W.injector # 0
    THEN Raise(W, "InjectorAlreadyRegistered", <<"", "injector", W.injector>>)
    ELSE Return([W EXCEPT !.injector = i], None)

cls_unregister_any(W, ref) == [W EXCEPT !.injector = 0]

\* ref = 0 stands for injector=None.
cls_unregister(W, ref) ==
    IF ref # 0 /\ W.injector # ref THEN W
    ELSE [W EXCEPT !.injector = 0]

cls_is_registered(W, ref) ==
    IF ref # 0 THEN W.injector = ref ELSE W.injector # 0

register(W, i) == cls_register(W, i)

unregister(W, i) == cls_unregister(W, i)

is_registered(W, i) == cls_is_registered(W, i)

create(W, ab) ==
    LET W1 == new_injector(W, ab)
        r == register(W1, W1.ninjectors)
    IN  IF r.st = "ok" THEN Return(r.W, InjRef(W1.ninjectors)) ELSE r

\* ---------------------------------------------------- module-level functions
get_instance_ignores_none(W, type, none) ==
    LET r == cls_get_injector(W)
    IN  IF r.st # "ok" THEN r ELSE get(W, r.ret[2], type, FALSE)

get_instance(W, type, none) ==
    LET r == cls_get_injector(W)
    IN  IF r.st # "ok" THEN r ELSE get(W, r.ret[2], type, none)

fn_register(W, i) == cls_register(W, i)

fn_unregister(W, ref) == cls_unregister(W, ref)

fn_create(W, ab) == create(W, ab)


\* -------------------------------------------------------------- the inputs
BindKeys == {"A", "B"}
BindValues(type) == IF type = "A" THEN UserObjs ELSE {Obj(1)}
FactoryKeys == {"A"}
DirectKeys == {"A"}
DirectValues == {Obj(2)}
ScopeOpTypes == {"ApplicationScope", "ThreadScope"}
RegKeys == {"A", "K"}
\* get(type) for every key, get(type, none=True) for the keys that can miss.
GetArgs ==
    ({"A", "B", "K", "ApplicationScope"} \X {FALSE})
        \cup ({"A", "B", "K"} \X {TRUE})
Created == 1..ninjectors
\* The scope objects injector i made or was given, and those of a class.
Owned(i) == {s \in 1..nscopes : owner[s] = i}
OwnedOf(i, scope_type) == {s \in Owned(i) : class[s] = scope_type}
Factory(f) == <<"factory", 0>>
Bool(b) == <<"bool", IF b THEN 1 ELSE 0>>
Threads == 1..MaxThreads
ThreadKeys == {"A", "B"}
\* A thread that is not inside get.
Idle == [pc |-> "idle", i |-> 0, type |-> "", inst |-> None,
         st |-> "", ret |-> None]

\* ------------------------------------------------------------ initial state
Empty ==
    [injector |-> 0, ninjectors |-> 0, nscopes |-> 0,
     autobind |-> [i \in InjIds |-> FALSE],
     scopes |-> [i \in InjIds |-> [t \in ScopeTypes |-> 0]],
     scopes_stack |-> [i \in InjIds |-> << >>],
     app_scope |-> [i \in InjIds |-> 0],
     bindings |-> [s \in ScopeIds |-> [k \in Keys |-> Unbound]],
     factories |-> [s \in ScopeIds |-> [k \in Keys |-> NoFactory]],
     ninstances |-> 0, ncalls |-> 0,
     owner |-> [s \in ScopeIds |-> 0],
     class |-> [s \in ScopeIds |-> ""],
     bound_to |-> [i \in InjIds |-> [k \in Keys |-> Unbound]],
     fired |-> [s \in ScopeIds |-> [k \in Keys |-> 0]]]

\* The scope object of the stack of injector i that holds a binding of key
\* first, 0 when none does.
Holder(W, i, key) ==
    IF BoundAt(W, i, key) = {} THEN 0
    ELSE W.scopes_stack[i][Min(BoundAt(W, i, key))]

\* from: for bind and unbind, the scope that held the key before the call;
\* for bind_scope and unbind_scope, the scope that was bound for the scope
\* type before the call; 0 when there was none.
Op(name, i, key, arg, none, r) ==
    [op |-> name, i |-> i, key |-> key, arg |-> arg, none |-> none,
     st |-> r.st, ret |-> r.ret, args |-> r.args,
     from |-> IF name \in {"bind", "unbind"} THEN Holder(Heap, i, key)
              ELSE IF name \in {"bind_scope", "unbind_scope"}
              THEN scopes[i][key]
              ELSE 0]

InitHeap(W) ==
    /\ injector = W.injector
    /\ ninjectors = W.ninjectors
    /\ nscopes = W.nscopes
    /\ autobind = W.autobind
    /\ scopes = W.scopes
    /\ scopes_stack = W.scopes_stack
    /\ app_scope = W.app_scope
    /\ bindings = W.bindings
    /\ factories = W.factories
    /\ ninstances = W.ninstances
    /\ ncalls = W.ncalls
    /\ owner = W.owner
    /\ class = W.class
    /\ bound_to = W.bound_to
    /\ fired = W.fired

\* One injector has been constructed, Injector(autobind=ab), none registered.
Init ==
    \E ab \in BOOLEAN :
        /\ InitHeap(new_injector(Empty, ab))
        /\ ndirect = 0
        /\ nscopeops = 0
        /\ threads = [t \in Threads |-> Idle]
        /\ last = Op("Injector", 1, "", None, FALSE, Return(Empty, InjRef(1)))

\* The pools the model draws new objects from are not exhausted.
Fits(W) ==
    /\ W.ninjectors <= MaxInjectors
    /\ W.nscopes <= MaxScopes
    /\ W.ninstances <= MaxInstances
    /\ W.ncalls <= MaxCalls

\* A call that runs from its first line to its last with no other thread in
\* between.
Step(r, rec) ==
    /\ Fits(r.W)
    /\ Commit(r.W)
    /\ last' = rec
    /\ UNCHANGED threads

\* ------------------------------------------------------------------ actions
New(ab) ==
    LET r == Return(new_injector(Heap, ab), InjRef(ninjectors + 1))
    IN  /\ Step(r, Op("Injector", ninjectors + 1, "", None, ab, r))
        /\ UNCHANGED <<ndirect, nscopeops>>

Create(ab) ==
    LET r == fn_create(Heap, ab)
    IN  /\ Step(r, Op("create", ninjectors + 1, "", None, ab, r))
        /\ UNCHANGED <<ndirect, nscopeops>>

Register(i) ==
    LET r == register(Heap, i)
    IN  /\ Step(r, Op("register", i, "", None, FALSE, r))
        /\ UNCHANGED <<ndirect, nscopeops>>

FnRegister(i) ==
    LET r == fn_register(Heap, i)
    IN  /\ Step(r, Op("fn_register", i, "", None, FALSE, r))
        /\ UNCHANGED <<ndirect, nscopeops>>

Unregister(i) ==
    LET r == Return(unregister(Heap, i), None)
    IN  /\ Step(r, Op("unregister", i, "", None, FALSE, r))
        /\ UNCHANGED <<ndirect, nscopeops>>

FnUnregister(ref) ==
    LET r == Return(fn_unregister(Heap, ref), None)
    IN  /\ Step(r, Op("fn_unregister", ref, "", None, FALSE, r))
        /\ UNCHANGED <<ndirect, nscopeops>>

IsRegistered(i) ==
    LET r == Return(Heap, Bool(is_registered(Heap, i)))
    IN  /\ Step(r, Op("is_registered", i, "", None, FALSE, r))
        /\ UNCHANGED <<ndirect, nscopeops>>

GetInstance(type, none) ==
    LET r == get_instance(Heap, type, none)
    IN  /\ Step(r, Op("get_instance", injector, type, None, none, r))
        /\ UNCHANGED <<ndirect, nscopeops>>

Bind(i, type, to) ==
    LET r == Return(bind(Heap, i, type, to), None)
    IN  /\ Step(r, Op("bind", i, type, to, FALSE, r))
        /\ UNCHANGED <<ndirect, nscopeops>>

Unbind(i, type) ==
    LET r == Return(unbind(Heap, i, type), None)
    IN  /\ Step(r, Op("unbind", i, type, None, FALSE, r))
        /\ UNCHANGED <<ndirect, nscopeops>>

Get(i, type, none) ==
    LET r == get(Heap, i, type, none)
    IN  /\ Step(r, Op("get", i, type, None, none, r))
        /\ UNCHANGED <<ndirect, nscopeops>>

BindFactory(i, type, f) ==
    LET r == Return(bind_factory(Heap, i, type, f), None)
    IN  /\ Step(r, Op("bind_factory", i, type, Factory(f), FALSE, r))
        /\ UNCHANGED <<ndirect, nscopeops>>

UnbindFactory(i, type) ==
    LET r == Return(unbind_factory(Heap, i, type), None)
    IN  /\ Step(r, Op("unbind_factory", i, type, None, FALSE, r))
        /\ UNCHANGED <<ndirect, nscopeops>>

\* bind_scope with a scope object the caller already holds.
BindScope(i, scope_type, scope) ==
    LET r == Return(bind_scope(Heap, i, scope_type, scope), None)
    IN  /\ Step(r, Op("bind_scope", i, scope_type, ScopeRef(scope), FALSE, r))
        /\ nscopeops' = nscopeops + 1
        /\ UNCHANGED ndirect

\* bind_scope with a scope object constructed for the call.
BindNewScope(i, scope_type) ==
    LET W1 == NewScope(Heap, i, scope_type)
        r == Return(bind_scope(W1, i, scope_type, W1.nscopes), None)
    IN  /\ Step(r, Op("bind_scope", i, scope_type, ScopeRef(W1.nscopes),
                      FALSE, r))
        /\ nscopeops' = nscopeops + 1
        /\ UNCHANGED ndirect

UnbindScope(i, scope_type) ==
    LET r == Return(unbind_scope(Heap, i, scope_type), None)
    IN  /\ Step(r, Op("unbind_scope", i, scope_type, None, FALSE, r))
        /\ nscopeops' = nscopeops + 1
        /\ UNCHANGED ndirect

Clear(i) ==
    LET r == Return(clear(Heap, i), None)
    IN  /\ Step(r, Op("clear", i, "", None, FALSE, r))
        /\ nscopeops' = nscopeops + 1
        /\ UNCHANGED ndirect

\* Operations made on a scope object itself, as in
\* injector.get(ApplicationScope).bind(A, to=a).
Forget(W, s, k) == [W EXCEPT !.bound_to[W.owner[s]][k] = Unbound]

ScopeBind(s, k, v) ==
    LET r == Return(scope_bind(Forget(Heap, s, k), s, k, v), None)
    IN  /\ ndirect < MaxDirect
        /\ Step(r, Op("scope.bind", s, k, v, FALSE, r))
        /\ ndirect' = ndirect + 1
        /\ UNCHANGED nscopeops

ScopeUnbind(s, k) ==
    LET r == Return(scope_unbind(Forget(Heap, s, k), s, k), None)
    IN  /\ ndirect < MaxDirect
        /\ Step(r, Op("scope.unbind", s, k, None, FALSE, r))
        /\ ndirect' = ndirect + 1
        /\ UNCHANGED nscopeops

ScopeBindFactory(s, k, f) ==
    LET r == Return(scope_bind_factory(Heap, s, k, f), None)
    IN  /\ ndirect < MaxDirect
        /\ Step(r, Op("scope.bind_factory", s, k, Factory(f), FALSE, r))
        /\ ndirect' = ndirect + 1
        /\ UNCHANGED nscopeops

\* get(type) called by a thread, one step at a time: another thread may run
\* between two steps.  The thread is at "construct" before inst = type(),
\* at "bind" before self.bind(type, inst) tests is_bound, at "store" before
\* self._app_scope.bind(type, inst), and at "done" once get has returned or
\* raised.
Enter(t, rec) ==
    /\ threads' = [threads EXCEPT ![t] = rec]
    /\ UNCHANGED <<ndirect, nscopeops, last>>

\* The loop over the stack and the test of autobind.
GetLookup(t, i, type) ==
    /\ threads[t].pc = "idle"
    /\ IF Matches(Heap, i, type) # {}
       THEN LET r == get(Heap, i, type, FALSE)
            IN  /\ Fits(r.W)
                /\ Commit(r.W)
                /\ Enter(t, [pc |-> "done", i |-> i, type |-> type,
                             inst |-> None, st |-> r.st, ret |-> r.ret])
       ELSE IF autobind[i] /\ callable(type)
       THEN /\ Commit(Heap)
            /\ Enter(t, [pc |-> "construct", i |-> i, type |-> type,
                         inst |-> None, st |-> "", ret |-> None])
       ELSE /\ Commit(Heap)
            /\ Enter(t, [pc |-> "done", i |-> i, type |-> type,
                         inst |-> None, st |-> "NotBoundError", ret |-> None])

\* inst = type(), or AutobindingFailed.
GetConstruct(t) ==
    LET c == construct(Heap, threads[t].i, threads[t].type)
    IN  /\ threads[t].pc = "construct"
        /\ Fits(c.W)
        /\ Commit(c.W)
        /\ Enter(t, IF c.ok
                    THEN [threads[t] EXCEPT !.pc = "bind", !.inst = c.val]
                    ELSE [threads[t] EXCEPT !.pc = "done",
                                            !.st = "AutobindingFailed"])

\* self.bind(type, inst): if self.is_bound(type): self.unbind(type).
GetBindCheck(t) ==
    LET i == threads[t].i
        type == threads[t].type
    IN  /\ threads[t].pc = "bind"
        /\ Commit(IF is_bound(Heap, i, type) THEN unbind(Heap, i, type)
                  ELSE Heap)
        /\ Enter(t, [threads[t] EXCEPT !.pc = "store"])

\* self._app_scope.bind(type, inst), then return inst.
GetBindStore(t) ==
    LET i == threads[t].i
        type == threads[t].type
        W == scope_bind(Heap, app_scope[i], type, threads[t].inst)
    IN  /\ threads[t].pc = "store"
        /\ Commit([W EXCEPT !.bound_to[i][type] = threads[t].inst])
        /\ Enter(t, [threads[t] EXCEPT !.pc = "done", !.st = "ok",
                                       !.ret = threads[t].inst])

\* The operations of injector i on its bindings, for the keys in K.
Resolve(i, K) ==
    \/ \E type \in BindKeys \cap K : \E to \in BindValues(type) :
          Bind(i, type, to)
    \/ \E type \in BindKeys \cap K : Unbind(i, type)
    \/ \E a \in GetArgs : a[1] \in K /\ Get(i, a[1], a[2])

Factor(i) ==
    \/ \E type \in FactoryKeys, f \in Factories : BindFactory(i, type, f)
    \/ \E type \in FactoryKeys : UnbindFactory(i, type)

\* The operations of injector i on its scopes, for the scope types in T.
ScopeOps(i, T) ==
    \/ \E t \in T : \E s \in OwnedOf(i, t) : BindScope(i, t, s)
    \/ \E t \in T : BindNewScope(i, t)
    \/ \E t \in T : UnbindScope(i, t)
    \/ Clear(i)

\* A few of them, among the other operations.
Rescope(i) == nscopeops < MaxScopeOps /\ ScopeOps(i, ScopeOpTypes)

\* Several of them in a row, on every scope type.
Reconfigure(i) == nscopeops < MaxRescopes /\ ScopeOps(i, ScopeTypes)

\* get of the scope types.
Lookup(i) == \E t \in ScopeTypes : Get(i, t, FALSE)

\* The operations made on the scope objects of injector i.
Direct(i) ==
    \/ \E s \in Owned(i), k \in DirectKeys, v \in DirectValues :
          ScopeBind(s, k, v)
    \/ \E s \in Owned(i), k \in DirectKeys : ScopeUnbind(s, k)
    \/ \E s \in Owned(i), k \in DirectKeys, f \in Factories :
          ScopeBindFactory(s, k, f)

\* The registration operations.
Registration ==
    \/ \E ab \in BOOLEAN : New(ab)
    \/ \E ab \in BOOLEAN : Create(ab)
    \/ \E i \in Created : Register(i)
    \/ \E i \in Created : FnRegister(i)
    \/ \E i \in Created : Unregister(i)
    \/ \E ref \in Created \cup {0} : FnUnregister(ref)
    \/ \E i \in Created : IsRegistered(i)
    \/ \E a \in GetArgs : a[1] \in RegKeys /\ GetInstance(a[1], a[2])

\* One injector, configured through its own operations.
Next == Resolve(1, Keys) \/ Factor(1) \/ Rescope(1)

Spec == Init /\ [][Next]_vars

\* One injector, configured through its own operations and through its
\* scope objects.
NextDirect == Resolve(1, DirectKeys) \/ Rescope(1) \/ Direct(1)

SpecDirect == Init /\ [][NextDirect]_vars

\* One injector and its default scopes; bindings and factories are made
\* through the injector and on the scope objects.
NextBindings == Resolve(1, DirectKeys) \/ Factor(1) \/ Direct(1)

SpecBindings == Init /\ [][NextBindings]_vars

\* One injector in its default configuration and threads that call get.
NextThreads ==
    \E t \in Threads :
        \/ \E type \in ThreadKeys : GetLookup(t, 1, type)
        \/ GetConstruct(t)
        \/ GetBindCheck(t)
        \/ GetBindStore(t)

SpecThreads == Init /\ [][NextThreads]_vars

\* The registration operations on an injector that exists.
Registry(i) ==
    \/ Register(i)
    \/ FnRegister(i)
    \/ Unregister(i)
    \/ \E ref \in {0, i} : FnUnregister(ref)
    \/ IsRegistered(i)

\* One injector that is configured, registered and unregistered in any
\* order.
NextFrame == Registry(1) \/ Resolve(1, DirectKeys) \/ Factor(1) \/ Rescope(1)

SpecFrame == Init /\ [][NextFrame]_vars

\* One injector whose scopes are bound and unbound again and again.
NextScopes == Reconfigure(1) \/ Lookup(1)

SpecScopes == Init /\ [][NextScopes]_vars

\* Several injectors and the registered slot.
NextReg == Registration \/ \E i \in Created : Resolve(i, RegKeys)

SpecReg == Init /\ [][NextReg]_vars


\* ------------------------------------------------------------------ claims
\* The program's state, without the history and the budgets of the model.
HeapVars ==
    <<injector, ninjectors, nscopes, autobind, scopes, scopes_stack,
      app_scope, bindings, factories, ninstances, ncalls, owner, class>>

\* No scope of injector i's stack has a binding or a factory for type.
Misses(i, type) == Matches(Heap, i, type) = {}

\* C1: after Injector.bind(T, to=x), get(T) returns exactly x until T is
\* bound or unbound again (by bind, unbind, clear, or on a scope object).
C1_GetReturnsWhatWasBound ==
    \A i \in Created, T \in BindKeys :
        bound_to[i][T] # Unbound =>
            /\ get(Heap, i, T, FALSE).st = "ok"
            /\ get(Heap, i, T, FALSE).ret = bound_to[i][T]

\* C2: is_bound(T) is true immediately after bind(T, ...) and false
\* immediately after unbind(T), in any reachable state.
C2_BoundAfterBindUnboundAfterUnbind ==
    /\ last.op = "bind" => is_bound(Heap, last.i, last.key)
    /\ last.op = "unbind" => ~is_bound(Heap, last.i, last.key)

\* C3: the registered slot holds at most one injector; while an injector is
\* registered, register (the method, the function, create) raises
\* InjectorAlreadyRegistered carrying the registered injector and leaves it
\* registered; while none is registered, it registers the injector given.
C3_RegistrationExclusive ==
    [][/\ injector' \in 0..ninjectors'
       /\ last'.op \in {"register", "fn_register", "create"} =>
            IF injector # 0
            THEN /\ last'.st = "InjectorAlreadyRegistered"
                 /\ last'.args = <<"", "injector", injector>>
                 /\ injector' = injector
            ELSE /\ last'.st = "ok"
                 /\ injector' = last'.i]_vars

\* C3: injector 2 tried to register while injector 1 was registered.
C3_Witness ==
    /\ last.op = "register"
    /\ last.st = "InjectorAlreadyRegistered"
    /\ last.i = 2
    /\ injector = 1

\* C4: unregister with a reference to an injector that is not the registered
\* one changes nothing; in every other case the slot becomes unregistered.
C4_UnregisterOnlyOwn ==
    [][last'.op \in {"unregister", "fn_unregister"} =>
         IF last'.i # 0 /\ injector # last'.i
         THEN /\ UNCHANGED HeapVars
              /\ injector # 0 => is_registered(Heap', injector)
         ELSE injector' = 0]_vars

\* C4: injector 2 was unregistered while injector 1 was registered.
C4_Witness ==
    /\ last.op \in {"unregister", "fn_unregister"}
    /\ last.i = 2
    /\ injector = 1

\* T is bound in the application scope of injector i and in the scope bound
\* as its ThreadScope or RequestScope.
BoundInBoth(i, T) ==
    /\ scope_is_bound(Heap, app_scope[i], T)
    /\ \E t \in {"ThreadScope", "RequestScope"} :
          /\ is_scope_bound(Heap, i, t)
          /\ scopes[i][t] # app_scope[i]
          /\ scope_is_bound(Heap, scopes[i][t], T)

C6_AutobindingIdempotent ==
    [][(/\ last.op = "get" /\ last.key = "A" /\ last.st = "ok"
        /\ autobind[last.i]
        /\ last'.op = "get" /\ last'.key = "A" /\ last'.i = last.i)
       => /\ last'.st = "ok"
          /\ last'.ret = last.ret
          /\ ninstances' = ninstances]_vars

\* C7: get(C) with autobind enabled, for a class C that no scope of the stack
\* binds and whose constructor fails, raises AutobindingFailed carrying the
\* error and changes nothing: C is still not bound.
C7_AutobindingFailureLeavesNothing ==
    [][(/\ last'.op = "get"
        /\ Misses(last'.i, last'.key)
        /\ autobind[last'.i] /\ callable(last'.key)
        /\ ~construct(Heap, last'.i, last'.key).ok)
       => /\ last'.st = "AutobindingFailed"
          /\ last'.args = <<last'.key, "CtorError", 0>>
          /\ UNCHANGED HeapVars
          /\ ~is_bound(Heap', last'.i, last'.key)]_vars

\* C7: get(B) failed in autobinding.
C7_Witness ==
    /\ last.op = "get"
    /\ last.key = "B"
    /\ last.st = "AutobindingFailed"

\* C8: get(T) for a key T that no scope of the stack binds, with autobind
\* disabled or T not callable, returns None under none=True and raises
\* NotBoundError naming T otherwise; it changes nothing.
C8_MissReturnsNoneOrRaises ==
    [][(/\ last'.op = "get"
        /\ Misses(last'.i, last'.key)
        /\ ~autobind[last'.i] \/ ~callable(last'.key))
       => /\ IF last'.none
             THEN last'.st = "ok" /\ last'.ret = None
             ELSE /\ last'.st = "NotBoundError"
                  /\ last'.args = <<last'.key, "", 0>>
          /\ UNCHANGED HeapVars
          /\ ~is_bound(Heap', last'.i, last'.key)]_vars

\* C8: get of a class raised NotBoundError because autobind is disabled.
C8_Witness ==
    /\ last.op = "get"
    /\ last.st = "NotBoundError"
    /\ callable(last.key)
    /\ ~autobind[last.i]

\* C9, as stated: after clear(), is_bound(T) is false for every type T that
\* was bound before.
C9_ClearUnbindsEveryType ==
    [][last'.op = "clear" =>
         \A T \in Keys :
             is_bound(Heap, last'.i, T) => ~is_bound(Heap', last'.i, T)]_vars

\* C9, amended: after clear(), the stack is three new scopes, bound as
\* ApplicationScope, ThreadScope and RequestScope in this order; the new
\* application scope binds Injector to the injector and each scope type to
\* its new scope; nothing else is bound in them.
C9_ClearReinitializes ==
    last.op = "clear" =>
        LET i == last.i
            app == nscopes - 2
            thread == nscopes - 1
            request == nscopes
        IN  /\ scopes_stack[i] = <<app, thread, request>>
            /\ app_scope[i] = app
            /\ scopes[i] = [t \in ScopeTypes |->
                   IF t = "ApplicationScope" THEN app
                   ELSE IF t = "ThreadScope" THEN thread ELSE request]
            /\ is_scope_bound(Heap, i, "ApplicationScope")
            /\ \A T \in Keys \ (ScopeTypes \cup {"Injector"}) :
                   ~is_bound(Heap, i, T) /\ ~is_factory_bound(Heap, i, T)
            /\ bindings[app]["Injector"] = InjRef(i)
            /\ \A t \in ScopeTypes :
                   bindings[app][t] = ScopeRef(scopes[i][t])
            /\ \A s \in {thread, request}, T \in Keys :
                   ~scope_is_bound(Heap, s, T)

\* C9: clear() ran after class A had been autobound.
C9_Witness ==
    /\ last.op = "clear"
    /\ ninstances > 0
    /\ ~is_bound(Heap, last.i, "A")

\* C10: get_instance raises NoInjectorRegistered and changes nothing while
\* no injector is registered; while injector i is registered it returns or
\* raises what i.get does, with the same effect.
C10_GetInstanceForwards ==
    [][last'.op = "get_instance" =>
         IF injector = 0
         THEN /\ last'.st = "NoInjectorRegistered"
              /\ UNCHANGED HeapVars
         ELSE LET r == get(Heap, injector, last'.key, last'.none)
              IN  /\ last'.st = r.st
                  /\ last'.ret = r.ret
                  /\ last'.args = r.args
                  /\ Heap' = r.W]_vars

\* C10: get_instance returned an object bound in the registered injector 2.
C10_Witness ==
    /\ last.op = "get_instance"
    /\ injector = 2
    /\ last.st = "ok"
    /\ last.ret \in UserObjs

\* The scope object s is on the scope stack of injector i.
OnStack(W, i, s) == \E n \in 1..Len(W.scopes_stack[i]) : W.scopes_stack[i][n] = s

\* C11: in every state, ApplicationScope is bound in the scope table of every
\* injector, and the scope its bind, bind_factory and autobinding store into
\* (self._app_scope) is on its scope stack.
C11_ApplicationScopeAlwaysPresent ==
    \A i \in Created :
        /\ is_scope_bound(Heap, i, "ApplicationScope")
        /\ OnStack(Heap, i, app_scope[i])

\* C12: after bind_scope(S, s), is_scope_bound(S) is true and get(S) returns
\* s; after unbind_scope(S), is_scope_bound(S) and is_bound(S) are false.
C12_BoundScopeResolvable ==
    /\ last.op = "bind_scope" =>
          /\ is_scope_bound(Heap, last.i, last.key)
          /\ get(Heap, last.i, last.key, FALSE).st = "ok"
          /\ get(Heap, last.i, last.key, FALSE).ret = last.arg
    /\ last.op = "unbind_scope" =>
          /\ ~is_scope_bound(Heap, last.i, last.key)
          /\ ~is_bound(Heap, last.i, last.key)

\* The scope types injector i has a scope bound for.
BoundTypes(i) == {t \in ScopeTypes : is_scope_bound(Heap, i, t)}

\* C13: in every state, the scopes on the stack of an injector are exactly
\* the values of its scope table: every scope object is as many times on
\* the stack as there are scope types bound to it, so both have the same
\* number of entries.
C13_StackAndTableInSync ==
    \A i \in Created :
        /\ Len(scopes_stack[i]) = Cardinality(BoundTypes(i))
        /\ \A s \in ScopeIds :
               Cardinality({n \in 1..Len(scopes_stack[i]) :
                               scopes_stack[i][n] = s})
                   = Cardinality({t \in BoundTypes(i) : scopes[i][t] = s})

\* C13: a scope type that was not bound was unbound after another one had
\* been bound again to a new scope.
C13_Witness ==
    /\ last.op = "unbind_scope"
    /\ last.from = 0
    /\ nscopeops = 3
    /\ Len(scopes_stack[1]) = 2
    /\ OnStack(Heap, 1, 4)

\* C18: bind_scope(S, s) takes the scope bound for S, if any, off the stack
\* and puts s at its end, the other scopes keeping their order; the stack
\* holds one scope for each bound scope type; after construction and after
\* clear the stack is [Application, Thread, Request] and the first of them
\* is the scope bind stores into.
C18_BindScopeAppends ==
    /\ [](\A i \in Created :
             Len(scopes_stack[i]) = Cardinality(BoundTypes(i)))
    /\ [](last.op \in {"Injector", "create", "clear"} =>
             /\ scopes_stack[last.i] =
                    <<scopes[last.i]["ApplicationScope"],
                      scopes[last.i]["ThreadScope"],
                      scopes[last.i]["RequestScope"]>>
             /\ BoundTypes(last.i) = ScopeTypes
             /\ app_scope[last.i] = scopes_stack[last.i][1])
    /\ [][last'.op = "bind_scope" =>
             LET i == last'.i
                 S == last'.key
                 rest == IF is_scope_bound(Heap, i, S)
                         THEN Remove(scopes_stack[i], scopes[i][S])
                         ELSE scopes_stack[i]
             IN  /\ scopes_stack'[i] = Append(rest, last'.arg[2])
                 /\ scopes'[i] = [scopes[i] EXCEPT ![S] = last'.arg[2]]]_vars

\* C18: a new thread scope was bound and is last on the stack, behind the
\* request scope.
C18_Witness ==
    /\ last.op = "bind_scope"
    /\ last.key = "ThreadScope"
    /\ last.from = 2
    /\ scopes_stack[1] = <<1, 3, 4>>

\* The scopes on the stack of injector i that hold a binding, a factory of T.
BindingHolders(i, T) ==
    {s \in ScopeIds : OnStack(Heap, i, s) /\ scope_is_bound(Heap, s, T)}

FactoryHolders(i, T) ==
    {s \in ScopeIds : OnStack(Heap, i, s) /\ scope_is_factory_bound(Heap, s, T)}

\* C14: as long as only the injector's own bind, unbind, bind_factory,
\* unbind_factory and get were called (nothing was done on a scope object),
\* every key has a binding in at most one scope of the stack and a factory
\* in at most one scope of the stack.  Whenever bind(T, to) finds T bound,
\* in whatever state, it removes T from the first scope S that holds it and
\* stores it in the application scope: no other binding changes, and no
\* factory; bind_factory does the same with the factories.
C14_AtMostOneScopeHoldsAKey ==
    /\ [](ndirect = 0 =>
             \A i \in Created, T \in Keys :
                 /\ Cardinality(BindingHolders(i, T)) <= 1
                 /\ Cardinality(FactoryHolders(i, T)) <= 1)
    /\ [][last'.op = "bind" =>
             LET i == last'.i
                 T == last'.key
                 S == Holder(Heap, i, T)
                 removed == IF S = 0 THEN bindings
                            ELSE [bindings EXCEPT ![S][T] = Unbound]
             IN  /\ bindings' = [removed EXCEPT ![app_scope[i]][T] = last'.arg]
                 /\ UNCHANGED <<factories, scopes, scopes_stack, app_scope>>]_vars
    /\ [][last'.op = "bind_factory" =>
             LET i == last'.i
                 T == last'.key
                 at == FactoryBoundAt(Heap, i, T)
                 removed == IF at = {} THEN factories
                            ELSE [factories EXCEPT
                                     ![scopes_stack[i][Min(at)]][T] = NoFactory]
             IN  /\ factories'[app_scope[i]][T] # NoFactory
                 /\ \A s \in ScopeIds, k \in Keys :
                        (s # app_scope[i] \/ k # T) =>
                            factories'[s][k] = removed[s][k]
                 /\ UNCHANGED <<bindings, scopes, scopes_stack, app_scope>>]_vars

\* C14: bind(A, ...) found A bound in the thread scope, took it out of it and
\* stored its own in the application scope.
C14_Witness ==
    /\ last.op = "bind"
    /\ last.key = "A"
    /\ last.from = scopes[1]["ThreadScope"]
    /\ last.from # 0
    /\ ~scope_is_bound(Heap, last.from, "A")
    /\ bindings[app_scope[1]]["A"] = last.arg

\* C17: unbind(T) removes the binding of T from the first scope of the stack
\* that holds it and changes nothing else: no other scope, no other key, no
\* factory, not the stack, not the scope table; when no scope holds T it
\* changes nothing at all.  In a state where at most one scope holds T, a
\* second unbind(T) changes nothing more.
C17_UnbindRemovesFirstOnly ==
    /\ [][last'.op = "unbind" =>
             LET S == Holder(Heap, last'.i, last'.key)
             IN  /\ bindings' = IF S = 0 THEN bindings
                                ELSE [bindings EXCEPT ![S][last'.key] = Unbound]
                 /\ UNCHANGED <<injector, ninjectors, nscopes, autobind,
                                scopes, scopes_stack, app_scope, factories,
                                ninstances, ncalls, owner, class>>]_vars
    /\ [](\A i \in Created, T \in Keys :
             Cardinality(BindingHolders(i, T)) <= 1 =>
                 unbind(unbind(Heap, i, T), i, T) = unbind(Heap, i, T))

\* C17: unbind(A) took A out of the first scope that held it, and a later
\* scope of the stack still holds it.
C17_Witness ==
    /\ last.op = "unbind"
    /\ last.key = "A"
    /\ last.from # 0
    /\ ~scope_is_bound(Heap, last.from, "A")
    /\ is_bound(Heap, last.i, "A")

C16_NeverBindingAndFactory ==
    \A s \in ScopeIds, k \in Keys :
        ~(scope_is_bound(Heap, s, k) /\ scope_is_factory_bound(Heap, s, k))

\* C16, amended: bindings and factories are independent: bind(T, ...) leaves
\* every factory as it is, bind_factory(T, ...) and unbind_factory(T) leave
\* every binding as it is, and unbind(T) leaves every factory as it is, so
\* that one scope may hold both for a key; get(T) then returns the binding
\* and invokes no factory.
C16_BindingsAndFactoriesIndependent ==
    [][/\ last'.op \in {"bind", "unbind"} => factories' = factories
       /\ last'.op \in {"bind_factory", "unbind_factory"} =>
             bindings' = bindings
       /\ (/\ last'.op = "get"
           /\ \E s \in ScopeIds :
                 /\ s = Holder(Heap, last'.i, last'.key)
                 /\ scope_is_factory_bound(Heap, s, last'.key)
                 /\ first_match(Heap, last'.i, last'.key)
                        = Min(BoundAt(Heap, last'.i, last'.key)))
          => /\ last'.ret = bindings[Holder(Heap, last'.i, last'.key)][last'.key]
             /\ ncalls' = ncalls
             /\ UNCHANGED <<bindings, factories>>]_vars

\* C16: the application scope holds a factory of A that was never invoked
\* and a binding of A made by bind, and get(A) returned the binding.
C16_Witness ==
    /\ last.op = "get"
    /\ last.key = "A"
    /\ scope_is_factory_bound(Heap, app_scope[1], "A")
    /\ scope_is_bound(Heap, app_scope[1], "A")
    /\ ncalls = 0
    /\ last.ret = bindings[app_scope[1]]["A"]
    /\ last.ret \in UserObjs

\* The threads whose get(A) has returned.
Returned == {t \in Threads : threads[t].pc = "done" /\ threads[t].type = "A"
                                /\ threads[t].st = "ok"}

\* C19: with autobind enabled and class A not bound at the start, whatever
\* the interleaving of the threads that call get(A): A is constructed at
\* most once, all the calls return the identical instance, and once no
\* thread is inside get, a further get(A) returns that instance.
C19_AutoboundSingletonUnderThreads ==
    autobind[1] =>
        /\ ninstances <= 1
        /\ \A t1, t2 \in Returned : threads[t1].ret = threads[t2].ret
        /\ (\A t \in Threads : threads[t].pc \in {"idle", "done"}) =>
               \A t \in Returned :
                   get(Heap, 1, "A", FALSE).ret = threads[t].ret

\* The configuration of the injectors: what the operations on bindings,
\* factories and scopes work on.
Configuration ==
    <<autobind, scopes, scopes_stack, app_scope, bindings, factories>>

\* C20: bind, unbind, bind_factory, unbind_factory, get, bind_scope,
\* unbind_scope and clear, on a registered injector or on one that is not,
\* leave the registered slot as it is; register, unregister and
\* is_registered leave the configuration of every injector as it is; the
\* slot changes in no other operation than register and unregister (and
\* create, which constructs an injector and registers it, leaving the
\* injectors that exist as they are).
C20_RegistrationApartFromConfiguration ==
    /\ [][/\ (last'.op \in {"bind", "unbind", "bind_factory",
                            "unbind_factory", "get", "bind_scope",
                            "unbind_scope", "clear"})
                 => injector' = injector
          /\ (last'.op \in {"register", "fn_register", "unregister",
                            "fn_unregister", "is_registered"})
                 => UNCHANGED Configuration
          /\ (injector' # injector)
                 => (last'.op \in {"register", "fn_register", "unregister",
                                   "fn_unregister"})]_vars
    /\ [](\A ab \in BOOLEAN :
             LET r == create(Heap, ab)
             IN  /\ r.W.injector = IF injector = 0 THEN ninjectors + 1
                                   ELSE injector
                 /\ \A i \in Created :
                        /\ r.W.scopes[i] = scopes[i]
                        /\ r.W.scopes_stack[i] = scopes_stack[i]
                        /\ r.W.app_scope[i] = app_scope[i]
                 /\ \A s \in 1..nscopes :
                        /\ r.W.bindings[s] = bindings[s]
                        /\ r.W.factories[s] = factories[s])

\* C20: clear() ran on the registered injector, which made its three new
\* scopes, and the injector is still registered.
C20_Witness ==
    /\ last.op = "clear"
    /\ last.i = 1
    /\ injector = 1
    /\ nscopes = 6

=============================================================================
